---- MODULE Spec2Model ----
(***************************************************************************)
(* A model of NoGAN (src/NoGan.py): the training loop, the inference pass, *)
(* the evaluation pipeline and the patch-scoring function calc_score.      *)
(*                                                                         *)
(* Tensors are kept by shape and (small integer) content.  The generator's *)
(* trainable parameters are one integer, a clip's loss has an integer      *)
(* gradient, and the optimizer moves the parameters against the            *)
(* accumulated gradient.  One invocation is followed from an instance      *)
(* built over a store directory that earlier invocations may have filled.  *)
(***************************************************************************)
EXTENDS Integers, Sequences, FiniteSets, TLC

\* ------------------------------------------------------------------ bounds
MaxEpoch == 3      \* largest epoch_start / epoch_end / epoch argument
MaxSave == 2       \* largest save_every_x_epochs
MaxVideos == 2     \* videos of a split
MaxClips == 2      \* clip ranges of a video
ClipLen == 5       \* frames of a clip range [s, s + ClipLen)

\* ------------------------------------------------------- program constants
LEN_ZFILL == 5

\* an unassigned local / None is the empty tuple, a value v is <<v>>
None == <<>>
Unbound == <<>>

\* --------------------------------------------------------------- helpers
RECURSIVE Digits(_)
\* str(n) for n >= 0, as the sequence of its decimal digits
Digits(n) == IF n < 10 THEN <<n>> ELSE Append(Digits(n \div 10), n % 10)

RECURSIVE Zeros(_)
Zeros(k) == IF k <= 0 THEN <<>> ELSE <<0>> \o Zeros(k - 1)

\* str(n).zfill(width): left-padded with zeros, never shortened
zfill(n, width) == Zeros(width - Len(Digits(n))) \o Digits(n)

\* "model_epoch_%s.pkl" % str(e).zfill(LEN_ZFILL)
ModelName(e) == <<"model_epoch_">> \o zfill(e, LEN_ZFILL) \o <<".pkl">>

\* "%s/gen_epoch_%s.png"
GenImageName(e) == <<"gen_epoch_">> \o zfill(e, LEN_ZFILL) \o <<".png">>

\* '/out_epoch_%s_data_%s.pt'
OutputName(e, data_set) ==
    <<"out_epoch_">> \o zfill(e, LEN_ZFILL) \o <<"_data_", data_set, ".pt">>

RECURSIVE SumSeq(_)
SumSeq(s) == IF s = <<>> THEN 0 ELSE Head(s) + SumSeq(Tail(s))

\* The clip index ranges of a video of n clips: [0,L), [L,2L), ...
ClipRanges(n) == [j \in 1..n |-> <<(j - 1) * ClipLen, j * ClipLen>>]

\* A split: a sequence of videos, each the sequence of its clip index ranges
Layouts ==
    UNION {[1..v -> {ClipRanges(n) : n \in 1..MaxClips}] : v \in 0..MaxVideos}

\* dataset.get_num_of_batchs(): the clips of the split, over all its videos
get_num_of_batchs(data) == SumSeq([v \in 1..Len(data) |-> Len(data[v])])

\* The gradient of one clip's loss with respect to the parameters (lines
\* 118-145): a value that depends on the clip, never zero
loss_gradient(v, c) == ((v + c) % 2) + 1

\* optimizer.step(): the parameters move against the accumulated gradient
OptimizerStep(params, grad) == params - grad

\* SaveDue with the epoch index tested in place of the epoch count
SaveDueOnIndex(e, n) == e % n = 0

\* (epoch + 1) % save_every_x_epochs == 0
SaveDue(e, n) == (e + 1) % n = 0

\* GlobalStep without the per-epoch scale
GlobalStepUnscaled(e, total, iter) == e + iter

\* idx = epoch * total_batch_num + iter_count
GlobalStep(e, total, iter) == e * total + iter

\* EpochBeforeLoop with epoch initialised ahead of the loop
EpochPreset(es) == <<es - 1>>

\* the local variable epoch before the for statement assigns it
EpochBeforeLoop(es) == Unbound

\* AnomaNet.zero_grad()
zero_grad(net) == [net EXCEPT !.grad = 0]

\* backward that also moves the parameters
backward_and_update(net, g) == [net EXCEPT !.grad = @ + g, !.params = @ - g]

\* loss.backward(): the clip's gradient is added to the accumulated one
backward(net, g) == [net EXCEPT !.grad = @ + g]

\* ------------------------------------------------------------------ state
VARIABLES
    pc,                   \* position of the running operation, "idle" between calls
    op,                   \* the operation called last: train, infer, evaluate
    result,               \* how it ended: done, or the exception raised
    AnomaNet,             \* generator: params, accumulated grad, training mode
    ContextNet,           \* fixed context model: params, training mode
    models,               \* model_store_path: file name -> saved parameters
    gen_images,           \* gen_image_store_path: names of the images written
    outputs,              \* output_store_path: file name -> saved prediction lists
    epoch_start, epoch_end, save_every_x_epochs,
    data_set,             \* infer: the split name passed
    dataset,              \* the split loaded by the running call
    total_batch_num,
    range_next,           \* next value of range(epoch_start, epoch_end)
    epoch, iter_count,
    pending,              \* videos the shuffling dataloader has not yielded yet
    video_idx, clip_pos,  \* current video, position in its clip_indices
    imgs,                 \* last clip tensor built (None before the first)
    loss_grad,            \* gradient of the current clip's loss
    saved,                \* names passed to _save_model by the running call
    logger,               \* global steps passed to add_scalar by the running call
    nForward, nBackward, nStep,  \* generator calls, backward passes, optimizer steps
    eval_data_list,       \* evaluate: frame count of each ground-truth video
    lists,                \* evaluate: frame counts of reconst / instant / longterm
    diffs,                \* evaluate: frame counts of the three difference lists
    patches,              \* evaluate: the three score lists
    cs_args,              \* calc_score called alone: tensor, power, patch_size
    cs_ret                \* calc_score called alone: what it returned or raised

netVars == <<AnomaNet, ContextNet>>
diskVars == <<models, gen_images, outputs>>
trainVars == <<epoch_start, epoch_end, save_every_x_epochs, data_set, dataset,
               total_batch_num,
               range_next, epoch, iter_count, pending, video_idx, clip_pos, imgs,
               loss_grad>>
runVars == <<saved, logger, nForward, nBackward, nStep>>
evalVars == <<eval_data_list, lists, diffs, patches>>
csVars == <<cs_args, cs_ret>>
vars == <<pc, op, result, netVars, diskVars, trainVars, runVars, evalVars,
          csVars>>

\* NoGAN.__init__: fresh networks, empty store directories
InitInstance ==
    /\ pc = "idle" /\ op = "none" /\ result = "none"
    /\ AnomaNet = [params |-> 0, grad |-> 0, training |-> TRUE]
    /\ ContextNet = [params |-> 0, training |-> FALSE]
    /\ gen_images = {}
    /\ epoch_start = 0 /\ epoch_end = 0 /\ save_every_x_epochs = 1
    /\ data_set = "" /\ dataset = <<>> /\ total_batch_num = 0 /\ range_next = 0
    /\ epoch = Unbound /\ iter_count = 0 /\ pending = {}
    /\ video_idx = 0 /\ clip_pos = 0 /\ imgs = None /\ loss_grad = 0
    /\ saved = <<>> /\ logger = <<>>
    /\ nForward = 0 /\ nBackward = 0 /\ nStep = 0
    /\ eval_data_list = <<>> /\ lists = None /\ diffs = None /\ patches = None

\* torch.save(self.AnomaNet.state_dict(), name)
save_model(store, name, net) ==
    [n \in DOMAIN store \cup {name} |-> IF n = name THEN net.params ELSE store[n]]

\* self.AnomaNet.load_state_dict(torch.load(name))
load_model(store, name, net) == [net EXCEPT !.params = store[name]]

\* ------------------------------------------------------------------ train
\* lines 80-102: modes, optional resume, data loader, locals
TrainCall(es, ee, n, data) ==
    /\ pc = "idle" /\ op = "none"
    /\ op' = "train" /\ data_set' = "training_set"
    /\ ContextNet' = [ContextNet EXCEPT !.training = FALSE]
    /\ epoch_start' = es /\ epoch_end' = ee /\ save_every_x_epochs' = n
    /\ saved' = <<>> /\ logger' = <<>>
    /\ nForward' = 0 /\ nBackward' = 0 /\ nStep' = 0
    /\ epoch' = EpochBeforeLoop(es) /\ iter_count' = 0 /\ pending' = {}
    /\ video_idx' = 0 /\ clip_pos' = 0 /\ loss_grad' = 0 /\ imgs' = None
    /\ IF es > 0 /\ ModelName(es) \notin DOMAIN models
       THEN /\ result' = "FileNotFoundError" /\ pc' = "idle"
            /\ AnomaNet' = [AnomaNet EXCEPT !.training = TRUE]
            /\ dataset' = <<>> /\ total_batch_num' = 0 /\ range_next' = es
       ELSE /\ result' = "running" /\ pc' = "epoch_loop"
            /\ AnomaNet' = IF es > 0
                           THEN load_model(models, ModelName(es),
                                           [AnomaNet EXCEPT !.training = TRUE])
                           ELSE [AnomaNet EXCEPT !.training = TRUE]
            /\ dataset' = data /\ total_batch_num' = get_num_of_batchs(data)
            /\ range_next' = es
    /\ UNCHANGED <<diskVars, evalVars, csVars>>

\* line 105: for epoch in range(epoch_start, epoch_end)
EpochLoop ==
    /\ pc = "epoch_loop"
    /\ IF range_next < epoch_end
       THEN /\ epoch' = <<range_next>> /\ range_next' = range_next + 1
            /\ iter_count' = 0 /\ pending' = 1..Len(dataset)
            /\ pc' = "video_loop"
       ELSE /\ pc' = "finish"
            /\ UNCHANGED <<epoch, range_next, iter_count, pending>>
    /\ UNCHANGED <<op, result, netVars, diskVars, epoch_start, epoch_end,
                   save_every_x_epochs, data_set, dataset, total_batch_num, video_idx,
                   clip_pos, imgs, loss_grad, runVars, evalVars, csVars>>

\* lines 109-110: the dataloader (shuffle=True) yields a video; zero_grad
VideoLoop ==
    /\ pc = "video_loop"
    /\ IF pending # {}
       THEN \E v \in pending :
              /\ video_idx' = v /\ pending' = pending \ {v}
              /\ AnomaNet' = zero_grad(AnomaNet)
              /\ clip_pos' = 1 /\ pc' = "clip_loop"
       ELSE /\ pc' = "epoch_end"
            /\ UNCHANGED <<video_idx, pending, AnomaNet, clip_pos>>
    /\ UNCHANGED <<op, result, ContextNet, diskVars, epoch_start, epoch_end,
                   save_every_x_epochs, data_set, dataset, total_batch_num, range_next, epoch,
                   iter_count, imgs, loss_grad, runVars, evalVars, csVars>>

\* lines 113-145: next clip, generator and context forward, the four losses
Forward ==
    /\ pc = "clip_loop"
    /\ IF clip_pos <= Len(dataset[video_idx])
       THEN /\ imgs' = <<<<video_idx, dataset[video_idx][clip_pos]>>>>
            /\ nForward' = nForward + 1
            /\ loss_grad' = loss_gradient(video_idx, clip_pos)
            /\ pc' = "backward"
       ELSE /\ pc' = "video_loop"
            /\ UNCHANGED <<imgs, nForward, loss_grad>>
    /\ UNCHANGED <<op, result, netVars, diskVars, epoch_start, epoch_end,
                   save_every_x_epochs, data_set, dataset, total_batch_num, range_next, epoch,
                   iter_count, pending, video_idx, clip_pos, saved, logger, nBackward,
                   nStep, evalVars, csVars>>

\* line 148: loss.backward()
Backward ==
    /\ pc = "backward"
    /\ AnomaNet' = backward(AnomaNet, loss_grad)
    /\ nBackward' = nBackward + 1
    /\ pc' = "step"
    /\ UNCHANGED <<op, result, ContextNet, diskVars, trainVars, saved, logger,
                   nForward, nStep, evalVars, csVars>>

\* OptStep with the step taken only after the last clip of a video
OptStepPerVideo ==
    /\ pc = "step"
    /\ IF clip_pos = Len(dataset[video_idx])
       THEN /\ AnomaNet' = [AnomaNet EXCEPT !.params = OptimizerStep(@, AnomaNet.grad)]
            /\ nStep' = nStep + 1
       ELSE UNCHANGED <<AnomaNet, nStep>>
    /\ pc' = "log"
    /\ UNCHANGED <<op, result, ContextNet, diskVars, trainVars, saved, logger,
                   nForward, nBackward, evalVars, csVars>>

\* line 149: self.optimizer.step()
OptStep ==
    /\ pc = "step"
    /\ AnomaNet' = [AnomaNet EXCEPT !.params = OptimizerStep(@, AnomaNet.grad)]
    /\ nStep' = nStep + 1
    /\ pc' = "log"
    /\ UNCHANGED <<op, result, ContextNet, diskVars, trainVars, saved, logger,
                   nForward, nBackward, evalVars, csVars>>

\* lines 151-175: progress, the four add_scalar calls, iter_count += 1
LogClip ==
    /\ pc = "log"
    /\ logger' = Append(logger, GlobalStep(epoch[1], total_batch_num, iter_count))
    /\ iter_count' = iter_count + 1
    /\ clip_pos' = clip_pos + 1
    /\ pc' = "clip_loop"
    /\ UNCHANGED <<op, result, netVars, diskVars, epoch_start, epoch_end,
                   save_every_x_epochs, data_set, dataset, total_batch_num, range_next, epoch,
                   pending, video_idx, imgs, loss_grad, saved, nForward, nBackward,
                   nStep, evalVars, csVars>>

\* lines 177-194: periodic checkpoint, then the image grid of the last clip
EpochEnd ==
    /\ pc = "epoch_end"
    /\ IF SaveDue(epoch[1], save_every_x_epochs)
       THEN /\ models' = save_model(models, ModelName(epoch[1] + 1), AnomaNet)
            /\ saved' = Append(saved, ModelName(epoch[1] + 1))
            /\ IF imgs = None
               THEN /\ result' = "AttributeError" /\ pc' = "idle"
                    /\ UNCHANGED gen_images
               ELSE /\ gen_images' = gen_images \cup {GenImageName(epoch[1] + 1)}
                    /\ pc' = "epoch_loop" /\ UNCHANGED result
       ELSE /\ pc' = "epoch_loop"
            /\ UNCHANGED <<models, saved, gen_images, result>>
    /\ UNCHANGED <<op, netVars, outputs, trainVars, logger, nForward, nBackward,
                   nStep, evalVars, csVars>>

\* lines 196-202: the final save when the last epoch was not saved in the loop
Finish ==
    /\ pc = "finish"
    /\ pc' = "idle"
    /\ IF epoch = Unbound
       THEN /\ result' = "UnboundLocalError"
            /\ UNCHANGED <<models, saved>>
       ELSE /\ result' = "done"
            /\ IF ~SaveDue(epoch[1], save_every_x_epochs)
               THEN /\ models' = save_model(models, ModelName(epoch[1] + 1), AnomaNet)
                    /\ saved' = Append(saved, ModelName(epoch[1] + 1))
               ELSE UNCHANGED <<models, saved>>
    /\ UNCHANGED <<op, netVars, gen_images, outputs, trainVars, logger,
                   nForward, nBackward, nStep, evalVars, csVars>>

Train ==
    \/ /\ pc = "idle" /\ op = "none"
       /\ \E es \in 0..MaxEpoch, ee \in 0..MaxEpoch, n \in 1..MaxSave,
             data \in Layouts : TrainCall(es, ee, n, data)
    \/ EpochLoop \/ VideoLoop \/ Forward \/ Backward \/ OptStep \/ LogClip
    \/ EpochEnd \/ Finish

\* ------------------------------------------------------------------ infer
\* The attributes __init__ gives a NoGAN instance
NoGANAttributes ==
    {"name", "im_size", "store_path", "input_store_path", "training_data_file",
     "evaluation_data_file", "model_store_path", "gen_image_store_path",
     "output_store_path", "log_path", "device", "ContextNet", "AnomaNet",
     "learning_rate", "optimizer", "logger"}

\* The attribute line 239 calls as the generator
InferGenerator == "G"

\* Time-axis length of the generator's outputs for imgs[:, :-1] of clip [s, e)
ClipOutLen(clip) == clip[2] - clip[1] - 1

\* lines 231-251 for one video: the three concatenated outputs (their common
\* time-axis length), or the exception raised on the way
InferVideo(clip_indices) ==
    IF Len(clip_indices) = 0
    THEN [status |-> "RuntimeError", len |-> 0]          \* torch.cat of no tensor
    ELSE IF InferGenerator \notin NoGANAttributes
    THEN [status |-> "AttributeError", len |-> 0]        \* first clip, line 239
    ELSE [status |-> "done",
          len |-> SumSeq([j \in 1..Len(clip_indices) |-> ClipOutLen(clip_indices[j])])]

RECURSIVE InferVideos(_, _, _)
\* lines 230-251: the videos in dataloader order (shuffle=False)
InferVideos(data, i, acc) ==
    IF i > Len(data) THEN [status |-> "done", list |-> acc]
    ELSE LET r == InferVideo(data[i])
         IN IF r.status # "done" THEN [status |-> r.status, list |-> acc]
            ELSE InferVideos(data, i + 1, Append(acc, r.len))

DataSetArgs == {"test_set", "training_set", "validation_set"}

\* lines 204-262, the whole call
Infer(e, ds, data) ==
    /\ pc = "idle" /\ op = "none"
    /\ op' = "infer" /\ pc' = "idle"
    /\ epoch' = <<e>> /\ data_set' = ds
    /\ IF ds \notin {"test_set", "training_set"}
       THEN /\ result' = "AssertionError"
            /\ UNCHANGED <<AnomaNet, outputs, dataset, total_batch_num>>
       ELSE IF ModelName(e) \notin DOMAIN models
       THEN /\ result' = "FileNotFoundError"
            /\ UNCHANGED <<AnomaNet, outputs, dataset, total_batch_num>>
       ELSE LET r == InferVideos(data, 1, <<>>)
            IN /\ AnomaNet' = [load_model(models, ModelName(e), AnomaNet)
                                  EXCEPT !.training = FALSE]
               /\ dataset' = data /\ total_batch_num' = get_num_of_batchs(data)
               /\ result' = r.status
               /\ IF r.status = "done"
                  THEN outputs' =
                         [n \in DOMAIN outputs \cup {OutputName(e, ds)} |->
                            IF n = OutputName(e, ds)
                            THEN [reconst |-> r.list, instant |-> r.list,
                                  longterm |-> r.list]
                            ELSE outputs[n]]
                  ELSE UNCHANGED outputs
    /\ UNCHANGED <<ContextNet, models, gen_images, epoch_start, epoch_end,
                   save_every_x_epochs, range_next, iter_count, pending, video_idx,
                   clip_pos, imgs, loss_grad, runVars, evalVars, csVars>>

InferOp ==
    /\ pc = "idle" /\ op = "none"
    /\ \E e \in 0..MaxEpoch, ds \in DataSetArgs, data \in Layouts : Infer(e, ds, data)

\* ------------------------------------------------------------- calc_score
\* A tensor is its shape and its content, indexed along the shape
Abs(x) == IF x < 0 THEN 0 - x ELSE x

\* torch.abs(tensor) if power == 1 else tensor**2, one element
ChannelTerm(x, power) == IF power = 1 THEN Abs(x) ELSE x * x

\* line 271: torch.sum(..., dim=1) of an (n, C, H, W) tensor is (n, H, W)
CombineChannels(tensor, power) ==
    LET n == tensor.shape[1]
        C == tensor.shape[2]
        H == tensor.shape[3]
        W == tensor.shape[4]
    IN [shape |-> <<n, H, W>>,
        data |-> [i \in 1..n |-> [r \in 1..H |-> [c \in 1..W |->
                    SumSeq([ch \in 1..C |->
                              ChannelTerm(tensor.data[i][ch][r][c], power)])]]]]

\* iterating a tensor yields its slices along the first dimension
Slices(t) == [i \in 1..t.shape[1] |-> [shape |-> Tail(t.shape), data |-> t.data[i]]]

\* Sum of map m (H x W, zero outside) over the p x p window whose top-left
\* corner is row r - pad, column c - pad
WindowSum(m, H, W, p, pad, r, c) ==
    SumSeq([k \in 1..(p * p) |->
              LET rr == r - pad + ((k - 1) \div p)
                  cc == c - pad + ((k - 1) % p)
              IN IF rr \in 1..H /\ cc \in 1..W THEN m[rr][cc] ELSE 0])

\* line 275: F.conv2d(item, torch.ones(1, 1, p, p), stride=1, padding=padding).
\* conv2d takes a (C, H, W) or an (N, C, H, W) input; any other rank raises.
conv2d(item, p, padding) ==
    IF Len(item.shape) \notin {3, 4}
    THEN [status |-> "RuntimeError", shape |-> <<>>, data |-> <<>>]
    ELSE LET H == item.shape[Len(item.shape) - 1]
             W == item.shape[Len(item.shape)]
             Ho == H + 2 * padding - p + 1
             Wo == W + 2 * padding - p + 1
             m == IF Len(item.shape) = 3 THEN item.data[1] ELSE item.data[1][1]
         IN [status |-> "done", shape |-> <<1, Ho, Wo>>,
             data |-> <<[r \in 1..Ho |-> [c \in 1..Wo |->
                           WindowSum(m, H, W, p, padding, r, c)]]>>]

\* np.max of a (1, Ho, Wo) heatmap
HeatMax(h) ==
    CHOOSE x \in {h.data[1][r][c] : r \in 1..h.shape[2], c \in 1..h.shape[3]} :
       \A r \in 1..h.shape[2], c \in 1..h.shape[3] : h.data[1][r][c] <= x

\* lines 278-279: np.where lists the maxima in index order; the first two index
\* arrays' first entries are kept (0-based)
HeatPosition(h) ==
    LET hits == {rc \in (1..h.shape[2]) \X (1..h.shape[3]) :
                    h.data[1][rc[1]][rc[2]] = HeatMax(h)}
        first == CHOOSE rc \in hits : \A o \in hits :
                    rc[1] < o[1] \/ (rc[1] = o[1] /\ rc[2] <= o[2])
    IN <<0, first[1] - 1>>

\* lines 268-281
calc_score(tensor, power, patch_size) ==
    IF ~(power \in {1, 2} /\ patch_size % 2 # 0)
    THEN [status |-> "AssertionError", score |-> <<>>, position |-> <<>>]
    ELSE LET tensor2 == CombineChannels(tensor, power)
             items == Slices(tensor2)
         IN IF patch_size < 0                      \* torch.ones(1, 1, p, p)
            THEN [status |-> "RuntimeError", score |-> <<>>, position |-> <<>>]
            ELSE LET padding == patch_size \div 2
                     heatmaps == [i \in 1..Len(items) |->
                                    conv2d(items[i], patch_size, padding)]
                 IN IF \E i \in 1..Len(items) : heatmaps[i].status # "done"
                    THEN [status |-> "RuntimeError", score |-> <<>>,
                          position |-> <<>>]
                    ELSE [status |-> "done",
                          score |-> [i \in 1..Len(items) |-> HeatMax(heatmaps[i])],
                          position |-> [i \in 1..Len(items) |->
                                          HeatPosition(heatmaps[i])]]

\* calc_score called on its own with any arguments
CalcScoreCall ==
    /\ cs_args # None /\ cs_ret = None
    /\ cs_ret' = <<calc_score(cs_args[1].tensor, cs_args[1].power,
                              cs_args[1].patch_size)>>
    /\ UNCHANGED <<pc, op, result, netVars, diskVars, trainVars, runVars, evalVars,
                   cs_args>>

\* --------------------------------------------------------------- evaluate
MaxEvalVideos == 2   \* videos of the evaluation data and of a prediction list
MaxEvalFrames == 3   \* frames of one of those videos

\* defaults of calc_score
DefaultPower == 1
DefaultPatchSize == 5

\* Per-video frame counts of a list of video tensors
FrameLists == UNION {[1..v -> 0..MaxEvalFrames] : v \in 0..MaxEvalVideos}

\* (channels, height, width) of the frames evaluate handles
EvalFrameShape == <<1, 2, 2>>

\* A difference tensor of n frames; calc_score's control flow does not read
\* the content, which is kept zero
DiffTensor(n) ==
    [shape |-> <<n>> \o EvalFrameShape,
     data |-> [i \in 1..n |-> [ch \in 1..EvalFrameShape[1] |->
                 [r \in 1..EvalFrameShape[2] |-> [c \in 1..EvalFrameShape[3] |-> 0]]]]]

\* Frames of video[:-1] and of video[1:] for a video of f frames
SliceLen(f) == IF f > 0 THEN f - 1 ELSE 0

ShapeError == 0 - 1

\* Frames of a - b for tensors of a and b frames (equal frame shapes): torch
\* broadcasts a dimension of size 1, and raises on any other mismatch
BroadcastLen(a, b) ==
    IF a = b THEN a
    ELSE IF a = 1 THEN b
    ELSE IF b = 1 THEN a
    ELSE ShapeError

\* lines 300-302 for one prediction list
DiffList(pred, truth) ==
    [i \in 1..Len(truth) |-> BroadcastLen(pred[i], SliceLen(truth[i]))]

\* lines 306-308 for one difference list
PatchList(diff) ==
    [i \in 1..Len(diff) |-> calc_score(DiffTensor(diff[i]), DefaultPower,
                                       DefaultPatchSize)]

\* lines 283-298: load the ground truth and the predictions, compare the counts
EvalCall(e, ed) ==
    /\ pc = "idle" /\ op = "none"
    /\ op' = "evaluate" /\ epoch' = <<e>>
    /\ eval_data_list' = ed
    /\ IF OutputName(e, "test_set") \notin DOMAIN outputs
       THEN /\ result' = "FileNotFoundError" /\ pc' = "idle" /\ lists' = None
       ELSE LET o == outputs[OutputName(e, "test_set")]
            IN /\ lists' = <<o>>
               /\ IF Len(ed) = Len(o.reconst) /\ Len(o.reconst) = Len(o.instant)
                     /\ Len(o.instant) = Len(o.longterm)
                  THEN result' = "running" /\ pc' = "eval_diff"
                  ELSE result' = "AssertionError" /\ pc' = "idle"
    /\ UNCHANGED <<netVars, diskVars, epoch_start, epoch_end, save_every_x_epochs,
                   data_set, dataset, total_batch_num, range_next, iter_count,
                   pending, video_idx, clip_pos, imgs, loss_grad, runVars, diffs,
                   patches, csVars>>

\* lines 300-302: the three difference lists
EvalDiff ==
    /\ pc = "eval_diff"
    /\ LET d == [reconst |-> DiffList(lists[1].reconst, eval_data_list),
                 instant |-> DiffList(lists[1].instant, eval_data_list),
                 longterm |-> DiffList(lists[1].longterm, eval_data_list)]
       IN IF \E i \in 1..Len(eval_data_list) :
                ShapeError \in {d.reconst[i], d.instant[i], d.longterm[i]}
          THEN result' = "RuntimeError" /\ pc' = "idle" /\ UNCHANGED diffs
          ELSE diffs' = <<d>> /\ pc' = "eval_score" /\ UNCHANGED result
    /\ UNCHANGED <<op, netVars, diskVars, trainVars, runVars, eval_data_list, lists,
                   patches, csVars>>

\* lines 304-308: the patch scores of every difference tensor
EvalScore ==
    /\ pc = "eval_score"
    /\ LET q == [reconst |-> PatchList(diffs[1].reconst),
                 instant |-> PatchList(diffs[1].instant),
                 longterm |-> PatchList(diffs[1].longterm)]
       IN IF \E i \in 1..Len(eval_data_list) :
                \/ q.reconst[i].status # "done"
                \/ q.instant[i].status # "done"
                \/ q.longterm[i].status # "done"
          THEN result' = "RuntimeError" /\ pc' = "idle" /\ UNCHANGED patches
          ELSE /\ patches' = <<[b \in {"reconst", "instant", "longterm"} |->
                                 [i \in 1..Len(eval_data_list) |-> q[b][i].score]]>>
               /\ pc' = "eval_aggregate" /\ UNCHANGED result
    /\ UNCHANGED <<op, netVars, diskVars, trainVars, runVars, eval_data_list, lists,
                   diffs, csVars>>

\* lines 310-312: the three score lists go to dataset.evaluate
EvalAggregate ==
    /\ pc = "eval_aggregate"
    /\ result' = "done" /\ pc' = "idle"
    /\ UNCHANGED <<op, netVars, diskVars, trainVars, runVars, evalVars, csVars>>

Evaluate ==
    \/ /\ pc = "idle" /\ op = "none"
       /\ \E e \in 0..MaxEpoch, ed \in FrameLists : EvalCall(e, ed)
    \/ EvalDiff \/ EvalScore \/ EvalAggregate

\* ---------------------------------------------------------- specifications
\* Parameters of the checkpoint of epoch e that an earlier training left
PriorParams(e) == 0 - (10 * e)

\* The models directory after an earlier train(0, k, save_every_x_epochs = 1)
PriorModels(k) ==
    [n \in {ModelName(e) : e \in 1..k} |->
       PriorParams(CHOOSE e \in 1..k : ModelName(e) = n)]

\* The outputs directory after an earlier infer(k) over a split without videos
PriorOutputs(k) ==
    [n \in {OutputName(e, "test_set") : e \in 1..k} |->
       [reconst |-> <<>>, instant |-> <<>>, longterm |-> <<>>]]

\* One invocation of train, infer or evaluate on an instance built over a
\* store that k earlier epochs filled
Init ==
    /\ InitInstance
    /\ \E k \in 0..MaxEpoch : models = PriorModels(k) /\ outputs = PriorOutputs(k)
    /\ cs_args = None /\ cs_ret = None

Next == Train \/ InferOp \/ Evaluate

Spec == Init /\ [][Next]_vars

\* evaluate over any prediction artifact found in the outputs directory
Artifacts == [reconst : FrameLists, instant : FrameLists, longterm : FrameLists]

EvalEpoch == 1

InitEval ==
    /\ InitInstance
    /\ models = PriorModels(0)
    /\ \E a \in Artifacts :
          outputs = [n \in {OutputName(EvalEpoch, "test_set")} |-> a]
    /\ cs_args = None /\ cs_ret = None

SpecEval == InitEval /\ [][Evaluate]_vars

\* calc_score on any small difference volume, power and patch_size
MaxFrames == 1     \* frames of the volume
MaxChannels == 2
MaxSide == 2       \* height and width
DiffVals == {0 - 1, 0, 2}
PowerArgs == 0..3
PatchArgs == (0 - 3)..5

Volumes ==
    UNION {[shape : {<<n, C, H, W>>},
            data : [1..n -> [1..C -> [1..H -> [1..W -> DiffVals]]]]] :
             n \in 0..MaxFrames, C \in 1..MaxChannels, H \in 1..MaxSide,
             W \in 1..MaxSide}

InitScore ==
    /\ InitInstance
    /\ models = PriorModels(0) /\ outputs = PriorOutputs(0)
    /\ cs_ret = None
    /\ \E t \in Volumes, pw \in PowerArgs, ps \in PatchArgs :
          cs_args = <<[tensor |-> t, power |-> pw, patch_size |-> ps]>>

SpecScore == InitScore /\ [][CalcScoreCall]_vars

\* ================================================================== claims
TrainDone == op = "train" /\ pc = "idle" /\ result = "done"

\* Clips of a split, over all its videos
ClipCount(data) == SumSeq([v \in 1..Len(data) |-> Len(data[v])])

\* The epochs a completed run must have saved
ExpectedCheckpoints ==
    {k \in (epoch_start + 1)..epoch_end : k % save_every_x_epochs = 0}
       \cup {epoch_end}

\* C1: a completed train over a non-empty epoch range has written exactly the
\* checkpoints of the multiples of save_every_x_epochs in (epoch_start,
\* epoch_end] and of epoch_end, each once, each named by its epoch count.
CheckpointCadence ==
    (TrainDone /\ epoch_end > epoch_start) =>
        /\ {saved[i] : i \in 1..Len(saved)} = {ModelName(k) : k \in ExpectedCheckpoints}
        /\ Len(saved) = Cardinality(ExpectedCheckpoints)
        /\ \A k \in ExpectedCheckpoints : ModelName(k) \in DOMAIN models

\* C1 witness: a run that saved inside the loop and once more at the end
CheckpointCadenceWitness ==
    /\ TrainDone /\ epoch_end > epoch_start
    /\ epoch_end % save_every_x_epochs # 0
    /\ Len(saved) = 2

\* C2: every processed clip gets one optimizer step, after its backward pass
\* and before the next clip's generator call; a completed run has made
\* (epoch_end - epoch_start) * (clips of the split) optimizer steps.
OneStepPerClip ==
    op = "train" =>
        /\ pc = "backward" => nForward = nBackward + 1 /\ nBackward = nStep
        /\ pc = "step" => nForward = nBackward /\ nBackward = nStep + 1
        /\ pc \notin {"backward", "step"} => nForward = nBackward /\ nBackward = nStep
        /\ TrainDone => nStep = (epoch_end - epoch_start) * ClipCount(dataset)

\* C2 witness: two videos of two clips each trained for one epoch, 4 steps
OneStepPerClipWitness ==
    /\ TrainDone /\ epoch_end - epoch_start = 1
    /\ Len(dataset) = 2 /\ Len(dataset[1]) = 2 /\ Len(dataset[2]) = 2
    /\ nStep = 4

\* C3: at each optimizer step the accumulated gradient is the current clip's
\* gradient alone.
GradientResetEveryClip ==
    pc = "step" => AnomaNet.grad = loss_grad

\* C4: infer with an existing checkpoint and a valid split name completes and
\* persists, under (epoch, split), three lists with one entry per video, the
\* entry's length being the sum of (e - s - 1) over the video's clips [s, e).
InferPersistsPerVideoLists ==
    (/\ op = "infer" /\ pc = "idle"
     /\ data_set \in {"test_set", "training_set"}
     /\ ModelName(epoch[1]) \in DOMAIN models) =>
        /\ result = "done"
        /\ OutputName(epoch[1], data_set) \in DOMAIN outputs
        /\ LET o == outputs[OutputName(epoch[1], data_set)]
               want == [v \in 1..Len(dataset) |->
                          SumSeq([j \in 1..Len(dataset[v]) |->
                                    dataset[v][j][2] - dataset[v][j][1] - 1])]
           IN o.reconst = want /\ o.instant = want /\ o.longterm = want

\* C5 as stated: the generator's parameters change only in an optimizer step
\* of train, and the context model's parameters never change.
ParamsChangeOnlyInOptimizerStep ==
    [][/\ AnomaNet'.params # AnomaNet.params => pc = "step" /\ nStep' = nStep + 1
       /\ ContextNet'.params = ContextNet.params]_vars

\* C5 as amended: the generator's parameters change only in an optimizer step
\* of train (one per clip) or when _load_model reads a checkpoint into them,
\* at the start of train with epoch_start > 0 and at the start of infer;
\* evaluate never changes them; the context model's parameters never change.
ParamsChangeOnlyInStepOrLoad ==
    [][/\ AnomaNet'.params # AnomaNet.params =>
            \/ pc = "step" /\ nStep' = nStep + 1
            \/ /\ pc = "idle" /\ op' = "train" /\ epoch_start' > 0
               /\ AnomaNet'.params = models[ModelName(epoch_start')]
            \/ /\ pc = "idle" /\ op' = "infer"
               /\ AnomaNet'.params = models[ModelName(epoch'[1])]
       /\ ContextNet'.params = ContextNet.params]_vars

\* C5 witness: infer has loaded a checkpoint over the fresh parameters
ParamsChangeWitness ==
    /\ op = "infer" /\ nStep = 0
    /\ AnomaNet.params # 0 /\ AnomaNet.params = PriorParams(epoch[1])

\* Frame counts of the predictions against those of the ground truth
FrameMismatch ==
    LET o == lists[1]
    IN \/ Len(o.reconst) # Len(eval_data_list)
       \/ Len(o.instant) # Len(eval_data_list)
       \/ Len(o.longterm) # Len(eval_data_list)
       \/ \E i \in 1..Len(eval_data_list) :
             \/ o.reconst[i] # SliceLen(eval_data_list[i])
             \/ o.instant[i] # SliceLen(eval_data_list[i])
             \/ o.longterm[i] # SliceLen(eval_data_list[i])

\* C6: whenever the video count or a per-video frame count of a prediction
\* list differs from the ground truth, evaluate raises before any difference
\* is computed from the mismatched tensors and never reaches the metric.
MismatchIsFatal ==
    (op = "evaluate" /\ lists # None /\ FrameMismatch) =>
        /\ diffs = None
        /\ pc \notin {"eval_score", "eval_aggregate"}
        /\ result # "done"

\* C7: the global steps logged by one train run are strictly increasing in
\* clip-processing order.
GlobalStepIncreasing ==
    op = "train" =>
        \A i \in 1..Len(logger), j \in 1..Len(logger) : i < j => logger[i] < logger[j]

\* C7 witness: a completed run of two epochs or more that logged 4 clips or more
GlobalStepWitness ==
    TrainDone /\ epoch_end - epoch_start >= 2 /\ Len(logger) >= 4

\* power and patch_size that calc_score is meant to accept
ValidScoreArgs ==
    /\ cs_args[1].power \in {1, 2}
    /\ cs_args[1].patch_size > 0 /\ cs_args[1].patch_size % 2 = 1

\* C8: calc_score raises its precondition assertion exactly when power is not
\* 1 or 2 or patch_size is not a positive odd integer.
PreconditionRejectsInvalid ==
    cs_ret # None => (cs_ret[1].status = "AssertionError" <=> ~ValidScoreArgs)

\* The channel-combined error map of frame i, and its windowed sum centred at
\* (r, c) with zeros outside the map
ErrorMap(i) == CombineChannels(cs_args[1].tensor, cs_args[1].power).data[i]

CentredSum(i, r, c) ==
    WindowSum(ErrorMap(i), cs_args[1].tensor.shape[3], cs_args[1].tensor.shape[4],
              cs_args[1].patch_size, (cs_args[1].patch_size - 1) \div 2, r, c)

Cells == (1..cs_args[1].tensor.shape[3]) \X (1..cs_args[1].tensor.shape[4])

BestCell(i) ==
    CHOOSE rc \in Cells : \A o \in Cells :
       \/ CentredSum(i, rc[1], rc[2]) > CentredSum(i, o[1], o[2])
       \/ /\ CentredSum(i, rc[1], rc[2]) = CentredSum(i, o[1], o[2])
          /\ (rc[1] < o[1] \/ (rc[1] = o[1] /\ rc[2] <= o[2]))

\* C9: for valid power and patch_size calc_score returns, per frame, the
\* largest centred window sum of the error map and the first cell (row-major,
\* 0-based) where it is attained.
ScoreIsMaxWindowSum ==
    (cs_ret # None /\ ValidScoreArgs) =>
        /\ cs_ret[1].status = "done"
        /\ Len(cs_ret[1].score) = cs_args[1].tensor.shape[1]
        /\ \A i \in 1..cs_args[1].tensor.shape[1] :
              /\ cs_ret[1].score[i] = CentredSum(i, BestCell(i)[1], BestCell(i)[2])
              /\ cs_ret[1].position[i] = <<BestCell(i)[1] - 1, BestCell(i)[2] - 1>>

\* C10: train over an empty epoch range makes no optimizer step, writes no
\* checkpoint and no image, and ends in an error: the UnboundLocalError of
\* the final-save test whenever the call gets past the resume load.
EmptyRangeEndsInError ==
    (op = "train" /\ epoch_end <= epoch_start) =>
        /\ nStep = 0 /\ nForward = 0 /\ saved = <<>> /\ gen_images = {}
        /\ pc \in {"idle", "epoch_loop", "finish"}
        /\ pc = "idle" =>
              \/ result = "UnboundLocalError"
              \/ /\ result = "FileNotFoundError" /\ epoch_start > 0
                 /\ ModelName(epoch_start) \notin DOMAIN models

\* C10 witness: such a call, resumed from a checkpoint, has ended
EmptyRangeWitness ==
    /\ op = "train" /\ pc = "idle" /\ epoch_end <= epoch_start
    /\ epoch_start > 0 /\ result = "UnboundLocalError"
====
